---- MODULE Spec2Model ----
(***************************************************************************)
(* GSC Performance Analysis Tool: the analysis engine of gsc_analyzer.py   *)
(* (class GSCAnalyzer) as driven by the Streamlit shell of app.py.         *)
(*                                                                         *)
(* Text is modelled as a sequence of one-character strings, so that        *)
(* lower-casing and substring containment are computed.  Floating point    *)
(* quantities are exact rationals [num, den] with den > 0.                 *)
(*                                                                         *)
(* Spec is the analyzer used as a library: it is constructed once and its  *)
(* four operations are then called in any order.  SpecApp is one run of    *)
(* the script of app.py on an uploaded file, together with the run of the  *)
(* same script on a second upload that differs in ctr cells only.          *)
(***************************************************************************)
EXTENDS Integers, Sequences, FiniteSets, TLC

VARIABLES
    raw,                  \* the uploaded table: [columns, rows] (app.py:65)
    analyzer,             \* "none" | "ready" | "failed": GSCAnalyzer(df)
    columns,              \* self.df.columns after the renaming
    df,                   \* the rows of self.df, the normalized table
    raised,               \* the exception the last call raised, or "none"
    thresholds,           \* the thresholds given to the last bucketing call
    query_results,        \* <<>> or <<result of query_analysis>>
    url_results,          \* <<>> or <<result of url_analysis>>
    performance_results,  \* <<>> or <<result of url_performance_analysis>>
    insights,             \* <<>> or <<result of generate_insights>>
    shown,                \* what the page shows: "welcome" | "dashboard" | "error"
    twin                  \* <<>>, or <<the outcome of the same run on a second upload>>

vars == <<raw, analyzer, columns, df, raised, thresholds,
          query_results, url_results, performance_results, insights, shown, twin>>

-----------------------------------------------------------------------------
(* Bounds *)

MaxRows == 2

-----------------------------------------------------------------------------
(* Exact rationals standing for Python / numpy floats *)

Abs(n) == IF n < 0 THEN -n ELSE n

RECURSIVE Gcd(_, _)
Gcd(a, b) == IF b = 0 THEN a ELSE Gcd(b, a % b)

Rat(n, d) ==
    LET g == Gcd(Abs(n), Abs(d))
        s == IF d < 0 THEN -1 ELSE 1
    IN  [num |-> (s * n) \div g, den |-> (s * d) \div g]

RatI(n) == [num |-> n, den |-> 1]

RatAdd(a, b) == Rat(a.num * b.den + b.num * a.den, a.den * b.den)
RatLT(a, b) == a.num * b.den < b.num * a.den
RatLE(a, b) == a.num * b.den <= b.num * a.den
RatGT(a, b) == RatLT(b, a)
RatGE(a, b) == RatLE(b, a)
RatEQ(a, b) == a.num * b.den = b.num * a.den

\* x / y on floats, followed by .replace([inf, -inf], 0).fillna(0):
\* x / 0 is +-inf (x # 0) or NaN (x = 0), and both become 0.
SafeRatio(x, y) ==
    IF y.num = 0 THEN RatI(0) ELSE Rat(x.num * y.den, x.den * y.num)

-----------------------------------------------------------------------------
(* Text *)

Uppers == <<"A", "B", "C", "D", "E", "F", "G", "H", "I", "J", "K", "L", "M",
            "N", "O", "P", "Q", "R", "S", "T", "U", "V", "W", "X", "Y", "Z">>
Lowers == <<"a", "b", "c", "d", "e", "f", "g", "h", "i", "j", "k", "l", "m",
            "n", "o", "p", "q", "r", "s", "t", "u", "v", "w", "x", "y", "z">>

UpperToLower ==
    [c \in {Uppers[i] : i \in 1..Len(Uppers)} |->
        Lowers[CHOOSE i \in 1..Len(Uppers) : Uppers[i] = c]]

\* str.lower() on one character
LowerChar(c) == IF c \in DOMAIN UpperToLower THEN UpperToLower[c] ELSE c

\* col.lower()
Lower(s) == [i \in 1..Len(s) |-> LowerChar(s[i])]

\* key in col  (Python substring containment)
Contains(key, col) ==
    \E i \in 0..(Len(col) - Len(key)) : SubSeq(col, i + 1, i + Len(key)) = key

S_query       == <<"q", "u", "e", "r", "y">>
S_keyword     == <<"k", "e", "y", "w", "o", "r", "d">>
S_page        == <<"p", "a", "g", "e">>
S_landingpage == <<"l", "a", "n", "d", "i", "n", "g", " ", "p", "a", "g", "e">>
S_url         == <<"u", "r", "l">>
S_address     == <<"a", "d", "d", "r", "e", "s", "s">>
S_clicks      == <<"c", "l", "i", "c", "k", "s">>
S_impressions == <<"i", "m", "p", "r", "e", "s", "s", "i", "o", "n", "s">>
S_ctr         == <<"c", "t", "r">>
S_urlctr      == <<"u", "r", "l", " ", "c", "t", "r">>
S_position    == <<"p", "o", "s", "i", "t", "i", "o", "n">>
S_avgpos      == <<"a", "v", "g", ".", " ", "p", "o", "s">>

\* the dict literal of prepare_data, in insertion order: <<key, value>>
column_mapping ==
    << <<S_query, S_query>>,
       <<S_keyword, S_query>>,
       <<S_page, S_page>>,
       <<S_landingpage, S_page>>,
       <<S_url, S_page>>,
       <<S_address, S_page>>,
       <<S_clicks, S_clicks>>,
       <<S_impressions, S_impressions>>,
       <<S_ctr, S_ctr>>,
       <<S_urlctr, S_ctr>>,
       <<S_position, S_position>>,
       <<S_avgpos, S_position>> >>

SetMin(S) == CHOOSE m \in S : \A n \in S : m <= n

\* the inner loop with its break: the first key contained in col wins
\* key.lower() of every key
LoweredKeys == [i \in 1..Len(column_mapping) |-> Lower(column_mapping[i][1])]

FirstMatch(col) ==
    LET hits == {i \in 1..Len(column_mapping) : Contains(LoweredKeys[i], col)}
    IN  IF hits = {} THEN 0 ELSE SetMin(hits)

\* rename_dict applied to one (lower-cased) column name
RenameColumn(col) ==
    LET m == FirstMatch(col) IN IF m = 0 THEN col ELSE column_mapping[m][2]

\* the column names after lower-casing and renaming
MappedColumns(names) == [i \in 1..Len(names) |-> RenameColumn(Lower(names[i]))]

-----------------------------------------------------------------------------
(* Cells of the uploaded table, as pd.read_csv delivers them *)

Num(n, d) == [kind |-> "num", s |-> "", num |-> n, den |-> d]   \* a number n/d
Str(t)    == [kind |-> "str", s |-> t, num |-> 0, den |-> 1]    \* text
NaNCell   == [kind |-> "nan", s |-> "", num |-> 0, den |-> 1]   \* a missing cell

\* pd.to_numeric(column, errors='coerce').fillna(0) on one cell: text that does
\* not parse and missing cells become 0
ToNumeric(cell) == IF cell.kind = "num" THEN Rat(cell.num, cell.den) ELSE RatI(0)

\* Series.isna() on one cell
IsNa(cell) == cell.kind = "nan"

-----------------------------------------------------------------------------
(* prepare_data *)

required_cols == <<S_query, S_page, S_clicks, S_impressions, S_ctr, S_position>>

\* missing_cols, as the set of required names absent from the renamed columns
MissingCols(cols) ==
    {required_cols[k] : k \in {k \in 1..Len(required_cols) :
        \A i \in 1..Len(cols) : cols[i] # required_cols[k]}}

\* self.df[name]: the cells, row by row, under the column renamed to name
Column(cols, rows, name) ==
    LET c == SetMin({i \in 1..Len(cols) : cols[i] = name})
    IN  [r \in 1..Len(rows) |-> rows[r][c]]

\* pd.to_numeric(self.df[name], errors='coerce').fillna(0)
NumericColumn(cols, rows, name) ==
    LET cells == Column(cols, rows, name)
    IN  [r \in 1..Len(rows) |-> ToNumeric(cells[r])]

RECURSIVE MaxRat(_, _)
\* Series.max() of f[1..n], n >= 1
MaxRat(f, n) ==
    IF n = 1 THEN f[1]
    ELSE LET m == MaxRat(f, n - 1) IN IF RatGT(f[n], m) THEN f[n] ELSE m

CtrColumnPerRow(cols, rows) ==
    LET n == Len(rows)
        cells == Column(cols, rows, S_ctr)
        clicks == NumericColumn(cols, rows, S_clicks)
        impressions == NumericColumn(cols, rows, S_impressions)
        coerced == NumericColumn(cols, rows, S_ctr)
    IN  IF \A r \in 1..n : IsNa(cells[r])
        THEN [r \in 1..n |-> SafeRatio(clicks[r], impressions[r])]
        ELSE [r \in 1..n |-> IF RatGT(coerced[r], RatI(1))
                              THEN Rat(coerced[r].num, coerced[r].den * 100)
                              ELSE coerced[r]]

\* lines 57-66: the ctr column after the derivation / coercion / rescaling
CtrColumn(cols, rows) ==
    LET n == Len(rows)
        cells == Column(cols, rows, S_ctr)
        clicks == NumericColumn(cols, rows, S_clicks)
        impressions == NumericColumn(cols, rows, S_impressions)
        coerced == NumericColumn(cols, rows, S_ctr)
    IN  IF \A r \in 1..n : IsNa(cells[r])
        THEN [r \in 1..n |-> SafeRatio(clicks[r], impressions[r])]
        ELSE IF RatGT(MaxRat(coerced, n), RatI(1))
             THEN [r \in 1..n |-> Rat(coerced[r].num, coerced[r].den * 100)]
             ELSE coerced

\* lines 52-66: every row with its six canonical fields
Coerced(cols, rows) ==
    LET query == Column(cols, rows, S_query)
        page == Column(cols, rows, S_page)
        clicks == NumericColumn(cols, rows, S_clicks)
        impressions == NumericColumn(cols, rows, S_impressions)
        position == NumericColumn(cols, rows, S_position)
        ctr == CtrColumn(cols, rows)
    IN  [r \in 1..Len(rows) |->
            [query |-> query[r], page |-> page[r], clicks |-> clicks[r],
             impressions |-> impressions[r], ctr |-> ctr[r], position |-> position[r]]]

SameKey(a, b) == a.query = b.query /\ a.page = b.page

\* DataFrame.drop_duplicates(subset=['query', 'page']): keep='first'
DropDuplicatesKeepLast(rows) ==
    LET kept == {i \in 1..Len(rows) :
                    \A j \in (i + 1)..Len(rows) : ~SameKey(rows[j], rows[i])}
        nth(k) == CHOOSE i \in kept : Cardinality({j \in kept : j <= i}) = k
    IN  [k \in 1..Cardinality(kept) |-> rows[nth(k)]]

DropDuplicates(rows) ==
    LET kept == {i \in 1..Len(rows) : \A j \in 1..(i - 1) : ~SameKey(rows[j], rows[i])}
        nth(k) == CHOOSE i \in kept : Cardinality({j \in kept : j <= i}) = k
    IN  [k \in 1..Cardinality(kept) |-> rows[nth(k)]]

\* the table prepare_data leaves in self.df (when it does not raise)
Normalized(t) == DropDuplicates(Coerced(MappedColumns(t.columns), t.rows))

-----------------------------------------------------------------------------
(* Uploaded tables *)

\* Rows of an export, by semantic field.  ctr is given as a percentage in some
\* rows and as a fraction in others; some cells are missing or are text.
SampleRows ==
    { [query |-> Str("shoe"), page |-> Str("p1"), clicks |-> Num(150, 1),
       impressions |-> Num(12500, 1), ctr |-> Num(12, 1000), position |-> Num(32, 10)],
      [query |-> Str("shoe"), page |-> Str("p1"), clicks |-> Num(89, 1),
       impressions |-> Num(8900, 1), ctr |-> Num(34, 10), position |-> Num(41, 10)],
      [query |-> Str("boot"), page |-> Str("p2"), clicks |-> Num(0, 1),
       impressions |-> Num(500, 1), ctr |-> Num(0, 1), position |-> Num(85, 10)],
      [query |-> Str("sock"), page |-> Str("p3"), clicks |-> Num(0, 1),
       impressions |-> Num(0, 1), ctr |-> NaNCell, position |-> NaNCell],
      [query |-> Str("boot"), page |-> Str("p1"), clicks |-> Num(5, 1),
       impressions |-> Num(3, 1), ctr |-> Num(12, 10), position |-> Num(4, 1)],
      [query |-> Str("shoe"), page |-> Str("p2"), clicks |-> Num(1000, 1),
       impressions |-> Num(200000, 1), ctr |-> Num(250, 1), position |-> Num(21, 1)],
      [query |-> NaNCell, page |-> Str("p3"), clicks |-> Num(10, 1),
       impressions |-> Num(0, 1), ctr |-> NaNCell, position |-> Num(11, 1)],
      [query |-> Str("sock"), page |-> NaNCell, clicks |-> Str("n/a"),
       impressions |-> Num(100, 1), ctr |-> Str("1.2%"), position |-> Num(10, 1)],
      [query |-> Str("boot"), page |-> Str("p3"), clicks |-> Num(-1, 1),
       impressions |-> Num(1000, 1), ctr |-> Num(1, 1), position |-> Num(20, 1)],
      [query |-> Str("sock"), page |-> Str("p2"), clicks |-> Num(100, 1),
       impressions |-> Num(10000, 1), ctr |-> Num(100, 1), position |-> Num(0, 1)] }

S_Keyword     == <<"K", "e", "y", "w", "o", "r", "d">>
S_LandingPage == <<"L", "a", "n", "d", "i", "n", "g", " ", "P", "a", "g", "e">>
S_Clicks      == <<"C", "l", "i", "c", "k", "s">>
S_Impressions == <<"I", "m", "p", "r", "e", "s", "s", "i", "o", "n", "s">>
S_CTR         == <<"C", "T", "R">>
S_URLCTR      == <<"U", "R", "L", " ", "C", "T", "R">>
S_AvgPos      == <<"A", "v", "g", ".", " ", "P", "o", "s">>
S_Address     == <<"A", "d", "d", "r", "e", "s", "s">>
S_date        == <<"d", "a", "t", "e">>

\* Header rows: each column is <<name, the field of the row it carries>>.
\* No header here gives two columns the same canonical name while all six
\* required names are present.
Headers ==
    { << <<S_query, "query">>, <<S_page, "page">>, <<S_clicks, "clicks">>,
         <<S_impressions, "impressions">>, <<S_ctr, "ctr">>, <<S_position, "position">> >>,
      << <<S_LandingPage, "page">>, <<S_Keyword, "query">>, <<S_date, "query">>,
         <<S_Clicks, "clicks">>, <<S_Impressions, "impressions">>, <<S_CTR, "ctr">>,
         <<S_AvgPos, "position">> >>,
      << <<S_query, "query">>, <<S_page, "page">>, <<S_clicks, "clicks">>,
         <<S_impressions, "impressions">>, <<S_position, "position">> >>,
      << <<S_query, "query">>, <<S_page, "page">>, <<S_clicks, "clicks">>,
         <<S_impressions, "impressions">>, <<S_ctr, "ctr">> >>,
      << <<S_keyword, "query">>, <<S_Address, "page">>, <<S_clicks, "clicks">>,
         <<S_impressions, "impressions">>, <<S_URLCTR, "ctr">>, <<S_avgpos, "position">> >>,
      << <<S_query, "query">>, <<S_url, "page">>, <<S_impressions, "impressions">>,
         <<S_ctr, "ctr">>, <<S_position, "position">> >> }

RECURSIVE SeqsUpTo(_, _)
\* the sequences over S of length at most n
SeqsUpTo(S, n) ==
    IF n = 0 THEN {<<>>}
    ELSE LET shorter == SeqsUpTo(S, n - 1)
         IN  shorter \cup {Append(q, x) : q \in {q \in shorter : Len(q) = n - 1}, x \in S}

\* pd.read_csv of a file with header h and the given rows
ReadCsv(h, rows) ==
    [columns |-> [i \in 1..Len(h) |-> h[i][1]],
     rows    |-> [r \in 1..Len(rows) |-> [i \in 1..Len(h) |-> rows[r][h[i][2]]]]]

NoFile == [columns |-> <<>>, rows |-> <<>>]

DefaultThresholds == [top |-> 1000, good |-> 100, weak |-> 10]

-----------------------------------------------------------------------------
(* Aggregation: df.groupby(dim).agg(clicks sum, impressions sum, position mean) *)

RECURSIVE SumField(_, _, _)
\* the sum of rows[1..n][field]
SumField(rows, field, n) ==
    IF n = 0 THEN RatI(0) ELSE RatAdd(SumField(rows, field, n - 1), rows[n][field])

\* the group keys: groupby drops the rows whose key is missing (dropna=True)
GroupKeys(table, dim) ==
    {table[i][dim] : i \in {i \in 1..Len(table) : ~IsNa(table[i][dim])}}

\* one aggregated group: sums of clicks and impressions, mean of position
Aggregate(table, dim, k) ==
    LET members == SelectSeq(table, LAMBDA row : row[dim] = k)
        n == Len(members)
        possum == SumField(members, "position", n)
    IN  [key         |-> k,
         clicks      |-> SumField(members, "clicks", n),
         impressions |-> SumField(members, "impressions", n),
         position    |-> Rat(possum.num, possum.den * n)]

\* query_stats / url_stats before the ctr column is added
GroupBy(table, dim) == {Aggregate(table, dim, k) : k \in GroupKeys(table, dim)}

GroupCtrInverted(g) == SafeRatio(g.impressions, g.clicks)

\* stats['ctr'] = (clicks / impressions).replace([inf, -inf], 0).fillna(0)
GroupCtr(g) == SafeRatio(g.clicks, g.impressions)

WithCtr(stats) ==
    {[key |-> g.key, clicks |-> g.clicks, impressions |-> g.impressions,
      position |-> g.position, ctr |-> GroupCtr(g)] : g \in stats}

-----------------------------------------------------------------------------
(* query_analysis / url_analysis *)

LowCtr == Rat(1, 100)      \* the literal 0.01

\* the count keys without their "queries_" / "urls_" prefix, and the filter of each
PresenceKeys == {"with_clicks", "with_impressions", "without_clicks", "without_impressions"}
CtrKeys == {"100clicks_1pct_ctr", "1000clicks_1pct_ctr", "100impr_1pct_ctr", "1000impr_1pct_ctr"}
PositionKeys ==
    {"100clicks_pos_4_10", "100clicks_pos_11_20", "100clicks_pos_21_plus",
     "1000clicks_pos_4_10", "1000clicks_pos_11_20", "1000clicks_pos_21_plus",
     "100impr_pos_4_10", "100impr_pos_11_20", "100impr_pos_21_plus",
     "1000impr_pos_4_10", "1000impr_pos_11_20", "1000impr_pos_21_plus"}
CountKeys == PresenceKeys \cup CtrKeys \cup PositionKeys

AtLeast(x, n) == RatGE(x, RatI(n))
\* a position band without its two ends
InBandExclusive(pos, lo, hi) == RatGT(pos, RatI(lo)) /\ RatLT(pos, RatI(hi))

InBand(pos, lo, hi) == RatGE(pos, RatI(lo)) /\ RatLE(pos, RatI(hi))

\* lines 87-90 / 219-222: the four presence filters, > 0 and == 0
PresenceWithAtLeastZero(k, g) ==
    CASE k = "with_clicks"            -> RatGE(g.clicks, RatI(0))
      [] k = "with_impressions"       -> RatGE(g.impressions, RatI(0))
      [] k = "without_clicks"         -> RatEQ(g.clicks, RatI(0))
      [] k = "without_impressions"    -> RatEQ(g.impressions, RatI(0))

Presence(k, g) ==
    CASE k = "with_clicks"            -> RatGT(g.clicks, RatI(0))
      [] k = "with_impressions"       -> RatGT(g.impressions, RatI(0))
      [] k = "without_clicks"         -> RatEQ(g.clicks, RatI(0))
      [] k = "without_impressions"    -> RatEQ(g.impressions, RatI(0))

Matches(k, g) ==
    CASE k \in PresenceKeys          -> Presence(k, g)
      [] k = "100clicks_1pct_ctr"     -> AtLeast(g.clicks, 100) /\ RatLT(g.ctr, LowCtr)
      [] k = "1000clicks_1pct_ctr"    -> AtLeast(g.clicks, 1000) /\ RatLT(g.ctr, LowCtr)
      [] k = "100impr_1pct_ctr"       -> AtLeast(g.impressions, 100) /\ RatLT(g.ctr, LowCtr)
      [] k = "1000impr_1pct_ctr"      -> AtLeast(g.impressions, 1000) /\ RatLT(g.ctr, LowCtr)
      [] k = "100clicks_pos_4_10"     -> AtLeast(g.clicks, 100) /\ InBand(g.position, 4, 10)
      [] k = "100clicks_pos_11_20"    -> AtLeast(g.clicks, 100) /\ InBand(g.position, 11, 20)
      [] k = "100clicks_pos_21_plus"  -> AtLeast(g.clicks, 100) /\ AtLeast(g.position, 21)
      [] k = "1000clicks_pos_4_10"    -> AtLeast(g.clicks, 1000) /\ InBand(g.position, 4, 10)
      [] k = "1000clicks_pos_11_20"   -> AtLeast(g.clicks, 1000) /\ InBand(g.position, 11, 20)
      [] k = "1000clicks_pos_21_plus" -> AtLeast(g.clicks, 1000) /\ AtLeast(g.position, 21)
      [] k = "100impr_pos_4_10"       -> AtLeast(g.impressions, 100) /\ InBand(g.position, 4, 10)
      [] k = "100impr_pos_11_20"      -> AtLeast(g.impressions, 100) /\ InBand(g.position, 11, 20)
      [] k = "100impr_pos_21_plus"    -> AtLeast(g.impressions, 100) /\ AtLeast(g.position, 21)
      [] k = "1000impr_pos_4_10"      -> AtLeast(g.impressions, 1000) /\ InBand(g.position, 4, 10)
      [] k = "1000impr_pos_11_20"     -> AtLeast(g.impressions, 1000) /\ InBand(g.position, 11, 20)
      [] k = "1000impr_pos_21_plus"   -> AtLeast(g.impressions, 1000) /\ AtLeast(g.position, 21)

\* len(stats[filter])
CountOf(stats, k) == Cardinality({g \in stats : Matches(k, g)})

\* (count / total) * 100, for total # 0
Pct(count, total) == Rat(count * 100, total)

\* the mapping a classifier call returns when it returns: total is
\* 'total_queries' / 'total_urls', count[k] is '<prefix>k', pct[k] is 'pct_<prefix>k'
Classify(stats) ==
    LET total == Cardinality(stats)
        count == [k \in CountKeys |-> CountOf(stats, k)]
    IN  [total |-> total,
         count |-> count,
         pct   |-> [k \in CountKeys |-> Pct(count[k], total)]]

\* query_stats with 'ctr': 'mean' in the aggregation, and no group-level ctr
QueryStatsMeanCtr(table) ==
    {[key |-> g.key, clicks |-> g.clicks, impressions |-> g.impressions,
      position |-> g.position,
      ctr |-> LET members == SelectSeq(table, LAMBDA row : row.query = g.key)
                  sum == SumField(members, "ctr", Len(members))
              IN  Rat(sum.num, sum.den * Len(members))] : g \in GroupBy(table, "query")}

QueryStats(table) == WithCtr(GroupBy(table, "query"))
UrlStats(table) == WithCtr(GroupBy(table, "page"))

-----------------------------------------------------------------------------
(* url_performance_analysis *)

Categories == {"top", "good", "weak", "dead", "opportunity"}

TopUrls(stats, th) == {g \in stats : AtLeast(g.clicks, th.top)}
GoodUrls(stats, th) ==
    {g \in stats : AtLeast(g.clicks, th.good) /\ RatLT(g.clicks, RatI(th.top))}
WeakUrls(stats, th) ==
    {g \in stats : AtLeast(g.clicks, th.weak) /\ RatLT(g.clicks, RatI(th.good))}
DeadUrls(stats) == {g \in stats : RatEQ(g.clicks, RatI(0))}
OpportunityUrlsAnyClicks(stats) == {g \in stats : RatGT(g.impressions, RatI(0))}

OpportunityUrls(stats) ==
    {g \in stats : RatEQ(g.clicks, RatI(0)) /\ RatGT(g.impressions, RatI(0))}

\* the mapping url_performance_analysis returns when it returns
Performance(table, th) ==
    LET url_stats == GroupBy(table, "page")
        total_urls == Cardinality(url_stats)
        urls == [c \in Categories |->
                   CASE c = "top"  -> TopUrls(url_stats, th)
                     [] c = "good" -> GoodUrls(url_stats, th)
                     [] c = "weak" -> WeakUrls(url_stats, th)
                     [] c = "dead" -> DeadUrls(url_stats)
                     [] c = "opportunity" -> OpportunityUrls(url_stats)]
    IN  [total_urls |-> total_urls,
         urls       |-> urls,
         count      |-> [c \in Categories |-> Cardinality(urls[c])],
         pct        |-> [c \in Categories |-> Pct(Cardinality(urls[c]), total_urls)]]

\* the values st.number_input can deliver for top, good, weak (minimums 1, 1, 0)
ThresholdConfigs ==
    { [top |-> 1000, good |-> 100, weak |-> 10],
      [top |-> 1000, good |-> 100, weak |-> 0],
      [top |-> 100, good |-> 1000, weak |-> 10],
      [top |-> 1, good |-> 1, weak |-> 0] }

-----------------------------------------------------------------------------
(* generate_insights *)

\* f"{x:.1f}": x rounded to one decimal, as a number of tenths
Tenths(x) == (20 * x.num + x.den) \div (2 * x.den)

\* the three rules with >= 10 and >= 20 for the two percentages
RecommendationsFromThreshold(q, perf) ==
    (IF RatGE(perf.pct["opportunity"], RatI(10))
     THEN <<[rule |-> "high_opportunity", shown |-> Tenths(perf.pct["opportunity"])]>>
     ELSE <<>>)
    \o
    (IF q.count["100clicks_1pct_ctr"] > 0
     THEN <<[rule |-> "ctr_review", shown |-> q.count["100clicks_1pct_ctr"]]>>
     ELSE <<>>)
    \o
    (IF RatGE(perf.pct["dead"], RatI(20))
     THEN <<[rule |-> "content_pruning", shown |-> Tenths(perf.pct["dead"])]>>
     ELSE <<>>)

\* the recommendations list, in the order of the three if statements
Recommendations(q, perf) ==
    (IF RatGT(perf.pct["opportunity"], RatI(10))
     THEN <<[rule |-> "high_opportunity", shown |-> Tenths(perf.pct["opportunity"])]>>
     ELSE <<>>)
    \o
    (IF q.count["100clicks_1pct_ctr"] > 0
     THEN <<[rule |-> "ctr_review", shown |-> q.count["100clicks_1pct_ctr"]]>>
     ELSE <<>>)
    \o
    (IF RatGT(perf.pct["dead"], RatI(20))
     THEN <<[rule |-> "content_pruning", shown |-> Tenths(perf.pct["dead"])]>>
     ELSE <<>>)

\* the mapping generate_insights returns when none of its three calls raises
Insights(table) ==
    LET q == Classify(QueryStats(table))
        u == Classify(UrlStats(table))
        perf == Performance(table, DefaultThresholds)
    IN  [query_insights |->
            [high_potential_queries     |-> q.count["100impr_1pct_ctr"],
             low_ctr_high_click_queries |-> q.count["100clicks_1pct_ctr"],
             position_opportunities     |->
                [pos_4_10    |-> q.count["100clicks_pos_4_10"],
                 pos_11_20   |-> q.count["100clicks_pos_11_20"],
                 pos_21_plus |-> q.count["100clicks_pos_21_plus"]]],
         url_insights |->
            [performance_distribution |-> perf.pct,
             low_ctr_high_click_urls  |-> u.count["100clicks_1pct_ctr"]],
         recommendations |-> Recommendations(q, perf)]

-----------------------------------------------------------------------------
(* The session *)

Init ==
    /\ raw = NoFile
    /\ columns = <<>>
    /\ analyzer = "none"
    /\ df = <<>>
    /\ raised = "none"
    /\ thresholds = DefaultThresholds
    /\ query_results = <<>>
    /\ url_results = <<>>
    /\ performance_results = <<>>
    /\ insights = <<>>
    /\ shown = "welcome"
    /\ twin = <<>>

\* app.py:65-68: df = pd.read_csv(uploaded_file); analyzer = GSCAnalyzer(df)
Construct ==
    /\ analyzer = "none"
    /\ \E h \in Headers, rows \in SeqsUpTo(SampleRows, MaxRows) :
         LET t == ReadCsv(h, rows) IN
           /\ raw' = t
           /\ IF MissingCols(MappedColumns(t.columns)) # {}
              THEN /\ raised' = "ValueError"
                   /\ analyzer' = "failed"
                   /\ columns' = <<>>
                   /\ df' = <<>>
              ELSE /\ raised' = "none"
                   /\ analyzer' = "ready"
                   /\ columns' = MappedColumns(t.columns)
                   /\ df' = Normalized(t)
    /\ UNCHANGED <<thresholds, query_results, url_results, performance_results, insights,
                   shown, twin>>

\* query_results = analyzer.query_analysis(): the percentages divide by
\* total_queries, and int / 0 raises ZeroDivisionError before anything is returned
QueryAnalysis ==
    /\ analyzer = "ready"
    /\ LET stats == QueryStats(df) IN
         IF Cardinality(stats) = 0
         THEN raised' = "ZeroDivisionError" /\ UNCHANGED query_results
         ELSE raised' = "none" /\ query_results' = <<Classify(stats)>>
    /\ UNCHANGED <<raw, analyzer, columns, df, thresholds, url_results, performance_results,
                   insights, shown, twin>>

\* url_results = analyzer.url_analysis()
UrlAnalysis ==
    /\ analyzer = "ready"
    /\ LET stats == UrlStats(df) IN
         IF Cardinality(stats) = 0
         THEN raised' = "ZeroDivisionError" /\ UNCHANGED url_results
         ELSE raised' = "none" /\ url_results' = <<Classify(stats)>>
    /\ UNCHANGED <<raw, analyzer, columns, df, thresholds, query_results, performance_results,
                   insights, shown, twin>>

\* url_performance_analysis filtering self.df itself instead of a copy
UrlPerformanceAnalysisInPlace ==
    /\ analyzer = "ready"
    /\ \E th \in ThresholdConfigs :
         /\ thresholds' = th
         /\ IF Cardinality(GroupBy(df, "page")) = 0
            THEN raised' = "ZeroDivisionError" /\ UNCHANGED performance_results
            ELSE raised' = "none" /\ performance_results' = <<Performance(df, th)>>
    /\ df' = SelectSeq(df, LAMBDA row : RatGT(row.clicks, RatI(0)))
    /\ UNCHANGED <<raw, analyzer, columns, query_results, url_results, insights,
                   shown, twin>>

\* performance_results = analyzer.url_performance_analysis(thresholds)
UrlPerformanceAnalysis ==
    /\ analyzer = "ready"
    /\ \E th \in ThresholdConfigs :
         /\ thresholds' = th
         /\ IF Cardinality(GroupBy(df, "page")) = 0
            THEN raised' = "ZeroDivisionError" /\ UNCHANGED performance_results
            ELSE raised' = "none" /\ performance_results' = <<Performance(df, th)>>
    /\ UNCHANGED <<raw, analyzer, columns, df, query_results, url_results, insights,
                   shown, twin>>

\* insights = analyzer.generate_insights(): query_analysis, url_analysis and
\* url_performance_analysis() run first, and the first of them to raise ends the call
GenerateInsights ==
    /\ analyzer = "ready"
    /\ IF Cardinality(GroupBy(df, "query")) = 0 \/ Cardinality(GroupBy(df, "page")) = 0
       THEN raised' = "ZeroDivisionError" /\ UNCHANGED insights
       ELSE raised' = "none" /\ insights' = <<Insights(df)>>
    /\ UNCHANGED <<raw, analyzer, columns, df, thresholds, query_results, url_results,
                   performance_results, shown, twin>>

Next ==
    \/ Construct
    \/ QueryAnalysis
    \/ UrlAnalysis
    \/ UrlPerformanceAnalysis
    \/ GenerateInsights

Spec == Init /\ [][Next]_vars

-----------------------------------------------------------------------------
(* One run of the script on an uploaded file: app.py:62-244 *)

\* app.py:76-240 render the dashboard once the four calls have returned; after an
\* exception the page has only st.error(...) and the st.info column guidance
ShownUnlessDivisionFails(exc) == IF exc = "ZeroDivisionError" THEN "error" ELSE "dashboard"

Shown(exc) == IF exc = "none" THEN "dashboard" ELSE "error"

\* GSCAnalyzer(df) raised: nothing below app.py:68 runs
Rejected(t) ==
    [raw |-> t, analyzer |-> "failed", raised |-> "ValueError", columns |-> <<>>,
     df |-> <<>>, query_results |-> <<>>, url_results |-> <<>>,
     performance_results |-> <<>>, insights |-> <<>>]

\* app.py:71-74 on the analyzer holding table d: query_analysis, url_analysis,
\* url_performance_analysis(th) and generate_insights in this order; the first
\* call to raise leaves the names after it unassigned
Analysed(t, cols, d, th) ==
    LET noq == GroupKeys(d, "query") = {}
        nou == GroupKeys(d, "page") = {}
    IN  [raw |-> t, analyzer |-> "ready", columns |-> cols, df |-> d,
         raised |-> IF noq \/ nou THEN "ZeroDivisionError" ELSE "none",
         query_results |-> IF noq THEN <<>> ELSE <<Classify(QueryStats(d))>>,
         url_results |-> IF noq \/ nou THEN <<>> ELSE <<Classify(UrlStats(d))>>,
         performance_results |-> IF noq \/ nou THEN <<>> ELSE <<Performance(d, th)>>,
         insights |-> IF noq \/ nou THEN <<>> ELSE <<Insights(d)>>]

\* the try block of app.py:63-74 on the uploaded table t
Outcome(t, th) ==
    CHOOSE out \in
        {IF MissingCols(cols) # {}
         THEN Rejected(t)
         ELSE CHOOSE o \in {Analysed(t, cols, d, th) : d \in {Normalized(t)}} : TRUE
         : cols \in {MappedColumns(t.columns)}} : TRUE

\* one script run, from the welcome page, with file t uploaded and th in the sidebar; t2 is a second
\* upload given to the same script, kept for comparing the two runs
RunScript(t, th, t2) ==
    /\ \E out \in {Outcome(t, th)} :
         /\ raw' = out.raw
         /\ analyzer' = out.analyzer
         /\ columns' = out.columns
         /\ df' = out.df
         /\ raised' = out.raised
         /\ query_results' = out.query_results
         /\ url_results' = out.url_results
         /\ performance_results' = out.performance_results
         /\ insights' = out.insights
         /\ shown' = Shown(out.raised)
         /\ twin' = IF t2 = t THEN <<out>> ELSE <<Outcome(t2, th)>>
    /\ thresholds' = th

\* values a ctr cell of the second upload may take instead
AltCells == {NaNCell, Num(1, 2), Num(250, 1)}

\* the tables that differ from rows in ctr cells only: one value in every ctr
\* cell, or one ctr cell changed
CtrVariants(rows) ==
    {[r \in 1..Len(rows) |-> [rows[r] EXCEPT !.ctr = c]] : c \in AltCells}
    \cup {[rows EXCEPT ![i].ctr = c] : i \in 1..Len(rows), c \in AltCells}

\* an export of up to MaxRows rows under any of the headers, analysed with the
\* sidebar left at its default values (app.py:48-59); the second upload differs
\* from it in ctr cells only
UploadSample ==
    /\ analyzer = "none"
    /\ \E h \in Headers, rows \in SeqsUpTo(SampleRows, MaxRows) :
         \E rows2 \in CtrVariants(rows) :
             RunScript(ReadCsv(h, rows), DefaultThresholds, ReadCsv(h, rows2))

\* the largest export with one page per row
MaxPages == 10

\* the header of a Search Console export with the canonical names
ExportHeader ==
    << <<S_query, "query">>, <<S_page, "page">>, <<S_clicks, "clicks">>,
       <<S_impressions, "impressions">>, <<S_ctr, "ctr">>, <<S_position, "position">> >>

\* kinds of page: clicks, impressions and position of its one row
LivePage == [name |-> "live", clicks |-> 150, impressions |-> 12500, position |-> 4]
SeenPage == [name |-> "seen", clicks |-> 0, impressions |-> 500, position |-> 11]
DeadPage == [name |-> "dead", clicks |-> 0, impressions |-> 0, position |-> 0]
OtherPages ==
    {[name |-> "deep", clicks |-> 1000, impressions |-> 200000, position |-> 21],
     [name |-> "edge", clicks |-> 100, impressions |-> 10000, position |-> 10],
     [name |-> "near", clicks |-> 99, impressions |-> 1000, position |-> 20]}

\* row i of an export: page u<i> of the given kind, found by the query of that kind
PageRow(i, kind) ==
    [query |-> Str(kind.name), page |-> Str("u" \o ToString(i)),
     clicks |-> Num(kind.clicks, 1), impressions |-> Num(kind.impressions, 1),
     ctr |-> NaNCell, position |-> Num(kind.position, 1)]

\* a live, b seen and c dead pages, followed by the pages of the sequence more
PageRows(a, b, c, more) ==
    [i \in 1..(a + b + c + Len(more)) |->
        PageRow(i, IF i <= a THEN LivePage
                   ELSE IF i <= a + b THEN SeenPage
                   ELSE IF i <= a + b + c THEN DeadPage
                   ELSE more[i - (a + b + c)])]

\* an export of up to MaxPages pages, one row each, uploaded twice
UploadPages ==
    /\ analyzer = "none"
    /\ \E a \in 0..MaxPages, b \in 0..MaxPages, c \in 0..MaxPages,
          more \in SeqsUpTo(OtherPages, 1), th \in ThresholdConfigs :
         /\ a + b + c + Len(more) <= MaxPages
         /\ \E t \in {ReadCsv(ExportHeader, PageRows(a, b, c, more))} :
              RunScript(t, th, t)

NextApp ==
    \/ UploadSample
    \/ UploadPages

SpecApp == Init /\ [][NextApp]_vars

-----------------------------------------------------------------------------
(* Properties *)

Constructed == analyzer # "none"
Ready == analyzer = "ready"
Cols == MappedColumns(raw.columns)

\* the held table has the non-negative clicks and impressions of a Normalized Record
NonNegative(table) ==
    \A i \in 1..Len(table) :
        RatGE(table[i].clicks, RatI(0)) /\ RatGE(table[i].impressions, RatI(0))

Ordered(th) == th.weak <= th.good /\ th.good <= th.top

\* C1: construction fails with a schema error only when, after the column
\* mapping, one of query, page, clicks, impressions is missing; a table with
\* those four columns and no ctr (or no position) column is accepted.
C1_SchemaErrorOnlyForFour ==
    (Constructed /\ {S_query, S_page, S_clicks, S_impressions} \cap MissingCols(Cols) = {})
        => (analyzer = "ready" /\ raised = "none")

\* C2: the percentage fields of query_analysis, url_analysis and
\* url_performance_analysis lie in [0,100], and no call raises: with a
\* denominator of 0 the call returns normally (with percentages 0).
InPercentRange(x) == RatGE(x, RatI(0)) /\ RatLE(x, RatI(100))

C2_PercentagesDefined ==
    Ready =>
        /\ raised = "none"
        /\ \A res \in {query_results, url_results} :
             res # <<>> => \A k \in CountKeys : InPercentRange(res[1].pct[k])
        /\ performance_results # <<>> =>
             \A c \in Categories : InPercentRange(performance_results[1].pct[c])

\* C3: with weak <= good <= top, every aggregated page of a normalized table is
\* in at least one of the buckets top, good, weak, dead.
C3_BucketsCover ==
    (performance_results # <<>> /\ Ordered(thresholds) /\ NonNegative(df)) =>
        LET u == performance_results[1].urls
        IN  u["top"] \cup u["good"] \cup u["weak"] \cup u["dead"] = GroupBy(df, "page")

\* C4: with weak <= good <= top and top >= 1, good >= 1, weak >= 0, the buckets
\* top, good and weak are pairwise disjoint and dead is disjoint from each.
C4_BucketsDisjoint ==
    (performance_results # <<>> /\ Ordered(thresholds)
        /\ thresholds.top >= 1 /\ thresholds.good >= 1 /\ thresholds.weak >= 0) =>
        LET u == performance_results[1].urls
        IN  /\ u["top"] \cap u["good"] = {}
            /\ u["top"] \cap u["weak"] = {}
            /\ u["good"] \cap u["weak"] = {}
            /\ u["dead"] \cap (u["top"] \cup u["good"] \cup u["weak"]) = {}

\* C5: for any thresholds the opportunity bucket is a subset of the dead bucket:
\* a page with summed clicks 0 and summed impressions > 0 is in both, a page
\* with clicks 0 and impressions 0 is in dead only, and no page with
\* clicks # 0 is in opportunity.
C5_OpportunityWithinDead ==
    performance_results # <<>> =>
        LET u == performance_results[1].urls
        IN  /\ u["opportunity"] \subseteq u["dead"]
            /\ \A g \in GroupBy(df, "page") :
                 /\ (g.clicks.num = 0 /\ g.impressions.num > 0)
                        => (g \in u["dead"] /\ g \in u["opportunity"])
                 /\ (g.clicks.num = 0 /\ g.impressions.num = 0)
                        => (g \in u["dead"] /\ g \notin u["opportunity"])
                 /\ g.clicks.num # 0 => g \notin u["opportunity"]

\* a bucketing result with a page in dead and opportunity and a page in dead only
C5_Witness ==
    /\ performance_results # <<>>
    /\ performance_results[1].urls["opportunity"] # {}
    /\ performance_results[1].urls["dead"] \ performance_results[1].urls["opportunity"] # {}

\* the input rows with their canonical fields, before the duplicates are removed
InputRows == Coerced(columns, raw.rows)
FirstOccurrence(rows, rec) == SetMin({r \in 1..Len(rows) : SameKey(rows[r], rec)})

\* C6: after normalization no two records share a (query, page) pair, and for
\* every pair of the input the record kept is the first one in input order.
C6_FirstOccurrenceKept ==
    Ready =>
        \A rows \in {InputRows} :
            /\ \A i, j \in 1..Len(df) : SameKey(df[i], df[j]) => i = j
            /\ \A r \in 1..Len(rows) :
                 \E i \in 1..Len(df) :
                    /\ SameKey(df[i], rows[r])
                    /\ df[i] = rows[FirstOccurrence(rows, rows[r])]
            /\ \A i, j \in 1..Len(df) :
                 i < j => FirstOccurrence(rows, df[i]) < FirstOccurrence(rows, df[j])

\* an input whose second row repeats the pair of the first with other values
C6_Witness ==
    /\ Ready
    /\ Len(raw.rows) = 2 /\ Len(df) = 1
    /\ InputRows[1] # InputRows[2]

\* C7: a column whose lower-cased name equals a documented synonym is mapped to
\* the canonical field the synonym is listed under.
C7_SynonymsMapped ==
    \A i \in 1..Len(raw.columns) :
        \A m \in 1..Len(column_mapping) :
            Lower(raw.columns[i]) = column_mapping[m][1]
                => Cols[i] = column_mapping[m][2]

\* every cell of clicks, impressions, ctr and position is a number >= 0
\* (of an accepted table)
NonNegativeNumericInput ==
    \A name \in {S_clicks, S_impressions, S_ctr, S_position} :
        \A cells \in {Column(columns, raw.rows, name)} :
            \A r \in 1..Len(raw.rows) :
                cells[r].kind = "num" /\ cells[r].num >= 0 /\ cells[r].den > 0

InputCtr == NumericColumn(columns, raw.rows, S_ctr)
InUnitRange(x) == RatGE(x, RatI(0)) /\ RatLE(x, RatI(1))

\* C8 as stated: for every input with non-negative numeric cells every
\* record's ctr lies in [0,1] after normalization.
C8_CtrInUnitRange ==
    (Ready /\ NonNegativeNumericInput) =>
        \A i \in 1..Len(df) : InUnitRange(df[i].ctr)

\* C8 as amended: for an input with non-negative numeric cells, a ctr column
\* whose maximum exceeds 1 is divided by 100 in every row, one whose maximum is
\* at most 1 is left unchanged, and every record's ctr lies in [0,1] when no
\* input ctr exceeds 100.
C8_CtrRescaledTableWide ==
    (Ready /\ NonNegativeNumericInput /\ Len(df) > 0) =>
        \A rows \in {InputRows}, ctr \in {InputCtr} :
            \A max \in {MaxRat(ctr, Len(rows))} :
                \A i \in 1..Len(df) :
                    LET r == FirstOccurrence(rows, df[i])
                    IN  /\ RatGT(max, RatI(1))
                             => RatEQ(Rat(df[i].ctr.num * 100, df[i].ctr.den), ctr[r])
                        /\ RatLE(max, RatI(1)) => df[i].ctr = ctr[r]
                        /\ RatLE(max, RatI(100)) => InUnitRange(df[i].ctr)

\* an input whose ctr column holds a fraction and a percentage above 1, both kept
C8_Witness ==
    /\ Ready /\ NonNegativeNumericInput
    /\ Len(df) = 2
    /\ \E ctr \in {InputCtr} :
         /\ \E r \in 1..2 : RatLE(ctr[r], RatI(1)) /\ ctr[r].num > 0
         /\ \E r \in 1..2 : RatGT(ctr[r], RatI(1)) /\ RatLE(ctr[r], RatI(100))

Groups == QueryStats(df) \cup UrlStats(df)

\* C9 as stated: with non-negative clicks and impressions the ctr recomputed
\* for each group, by query and by page, is never negative and never above 1.
C9_GroupCtrInUnitRange ==
    (Ready /\ NonNegative(df)) => \A g \in Groups : InUnitRange(g.ctr)

\* C9 as amended: with non-negative clicks and impressions the group ctr is
\* never negative, and it is at most 1 for every group whose summed clicks do
\* not exceed its summed impressions.
C9_GroupCtrBounded ==
    (Ready /\ NonNegative(df)) =>
        \A g \in Groups :
            /\ RatGE(g.ctr, RatI(0))
            /\ RatLE(g.clicks, g.impressions) => RatLE(g.ctr, RatI(1))

\* both classifiers ran on a table with a group of positive ctr below 1 and a
\* group without impressions
C9_Witness ==
    /\ Ready /\ NonNegative(df)
    /\ query_results # <<>> /\ url_results # <<>>
    /\ \E g \in Groups : g.ctr.num > 0 /\ RatLT(g.ctr, RatI(1))
    /\ \E g \in Groups : g.impressions.num = 0

\* C10: for a normalized table, with_clicks + without_clicks = total and
\* with_impressions + without_impressions = total, for queries and for urls.
PresenceAddsUp(res) ==
    /\ res.count["with_clicks"] + res.count["without_clicks"] = res.total
    /\ res.count["with_impressions"] + res.count["without_impressions"] = res.total

-----------------------------------------------------------------------------
(* C11 *)

NoResults ==
    /\ query_results = <<>>
    /\ url_results = <<>>
    /\ performance_results = <<>>
    /\ insights = <<>>

\* C11: when the uploaded table lacks a required canonical column after the
\* mapping, the run ends with the ValueError of the constructor: no analyzer and
\* no normalized table exist, none of the four results is produced, and the page
\* shows the error and the column guidance instead of the dashboard
C11_SchemaErrorAbortsRun ==
    (Constructed /\ MissingCols(MappedColumns(raw.columns)) # {})
        => /\ analyzer = "failed"
           /\ raised = "ValueError"
           /\ df = <<>>
           /\ NoResults
           /\ shown = "error"

\* a table with data rows was uploaded and rejected
C11_Witness ==
    /\ analyzer = "failed"
    /\ Len(raw.rows) > 0
    /\ S_position \in MissingCols(MappedColumns(raw.columns))
    /\ shown = "error"

-----------------------------------------------------------------------------
(* C12 *)

\* C12: a call on a constructed analyzer leaves the held table as it was, and a
\* result that was returned before is returned again: query_analysis,
\* url_analysis and generate_insights repeat their result whatever was called in
\* between, and url_performance_analysis repeats it for the same thresholds
C12_CallsAreRepeatable ==
    [][Ready =>
          /\ df' = df
          /\ columns' = columns
          /\ raw' = raw
          /\ (query_results # <<>> /\ query_results' # <<>> => query_results' = query_results)
          /\ (url_results # <<>> /\ url_results' # <<>> => url_results' = url_results)
          /\ (insights # <<>> /\ insights' # <<>> => insights' = insights)
          /\ (performance_results # <<>> /\ thresholds' = thresholds
                => performance_results' = performance_results)]_vars

\* every operation has returned, the bucketing last with thresholds of the
\* caller's, on a table with several rows
C12_Witness ==
    /\ Ready
    /\ Len(df) > 1
    /\ query_results # <<>>
    /\ url_results # <<>>
    /\ performance_results # <<>>
    /\ insights # <<>>
    /\ thresholds # DefaultThresholds

-----------------------------------------------------------------------------
(* C13 *)

\* the rules of the recommendations generate_insights returned, in order
ReturnedRules ==
    LET recs == insights[1].recommendations
    IN  [i \in 1..Len(recs) |-> recs[i].rule]

\* the rules that hold for the aggregated pages and queries, in the fixed order
RulesThatHold(pages, queries) ==
    LET n == Cardinality(pages)
        opportunity == Cardinality({g \in pages : RatEQ(g.clicks, RatI(0))
                                                  /\ RatGT(g.impressions, RatI(0))})
        dead == Cardinality({g \in pages : RatEQ(g.clicks, RatI(0))})
        review == Cardinality({g \in queries : RatGE(g.clicks, RatI(100))
                                               /\ RatLT(g.ctr, Rat(1, 100))})
    IN  (IF 100 * opportunity > 10 * n THEN <<"high_opportunity">> ELSE <<>>)
        \o (IF review > 0 THEN <<"ctr_review">> ELSE <<>>)
        \o (IF 100 * dead > 20 * n THEN <<"content_pruning">> ELSE <<>>)

\* C13: the recommendations generate_insights returns are exactly the messages
\* whose rule holds, each once, in the order high-opportunity, CTR-review,
\* content-pruning: opportunity percentage > 10, some query with clicks >= 100
\* and ctr < 1%, dead percentage > 20
C13_RecommendationsFollowRules ==
    insights # <<>> =>
        \A pages \in {UrlStats(df)}, queries \in {QueryStats(df)} :
            ReturnedRules = RulesThatHold(pages, queries)

\* exactly 10% of the pages are opportunity pages and exactly 20% are dead: only
\* the CTR-review message is returned
C13_Witness ==
    /\ insights # <<>>
    /\ RatEQ(insights[1].url_insights.performance_distribution["opportunity"], RatI(10))
    /\ RatEQ(insights[1].url_insights.performance_distribution["dead"], RatI(20))
    /\ ReturnedRules = <<"ctr_review">>

-----------------------------------------------------------------------------
(* C14 *)

\* the position bands: [4,10], [11,20] and [21, oo)
Bands ==
    {[suffix |-> "_pos_4_10", lo |-> 4, hi |-> 10, bounded |-> TRUE],
     [suffix |-> "_pos_11_20", lo |-> 11, hi |-> 20, bounded |-> TRUE],
     [suffix |-> "_pos_21_plus", lo |-> 21, hi |-> 21, bounded |-> FALSE]}

\* the key of a count, without its queries_ / urls_ prefix
CountKey(threshold, metric, suffix) ==
    ToString(threshold) \o (IF metric = "clicks" THEN "clicks" ELSE "impr") \o suffix

\* res is the classification of the aggregated groups stats
ClassifiedByTable(res, stats) ==
    /\ res.total = Cardinality(stats)
    /\ \A metric \in {"clicks", "impressions"}, threshold \in {100, 1000} :
         \A big \in {{g \in stats : RatGE(g[metric], RatI(threshold))}} :
           /\ res.count[CountKey(threshold, metric, "_1pct_ctr")]
                = Cardinality({g \in big : RatLT(g.ctr, Rat(1, 100))})
           /\ \A band \in Bands :
                res.count[CountKey(threshold, metric, band.suffix)]
                  = Cardinality({g \in big :
                        /\ RatGE(g.position, RatI(band.lo))
                        /\ band.bounded => RatLE(g.position, RatI(band.hi))})
    /\ \A k \in CtrKeys \cup PositionKeys :
         RatEQ(res.pct[k], Rat(100 * res.count[k], res.total))

\* C14: in the results of query_analysis and of url_analysis, for clicks and
\* impressions and the thresholds 100 and 1000, the CTR-deficiency count is the
\* number of groups with metric >= threshold and ctr < 0.01, each position-band
\* count is the number of groups with metric >= threshold and mean position in
\* [4,10], [11,20] (both ends included) or [21, oo), and each count has a
\* percentage equal to 100 * count / total groups
C14_CountsMatchFilters ==
    /\ query_results # <<>> =>
         \A stats \in {QueryStats(df)} : ClassifiedByTable(query_results[1], stats)
    /\ url_results # <<>> =>
         \A stats \in {UrlStats(df)} : ClassifiedByTable(url_results[1], stats)

\* pages at both ends of a band are counted: one at position 4 with 100 clicks or
\* more, one at 11 and one at 20 with 100 impressions or more, the latter with
\* exactly 1000; and the live query reaches 1000 clicks at mean position 4
C14_Witness ==
    /\ url_results # <<>>
    /\ query_results # <<>>
    /\ url_results[1].count["100clicks_pos_4_10"] >= 1
    /\ url_results[1].count["100impr_pos_11_20"] >= 2
    /\ url_results[1].count["1000impr_pos_11_20"] = 1
    /\ query_results[1].count["1000clicks_pos_4_10"] = 1
    /\ Cardinality({df[i].position : i \in 1..Len(df)}) = 3

-----------------------------------------------------------------------------
(* C15 *)

\* the second upload has the header of the first, and its cells differ from the
\* first's only under the column that is renamed to ctr
DifferInCtrOnly ==
    /\ twin[1].raw.columns = raw.columns
    /\ Len(twin[1].raw.rows) = Len(raw.rows)
    /\ \A i \in 1..Len(raw.rows), c \in 1..Len(columns) :
         twin[1].raw.rows[i][c] # raw.rows[i][c] => columns[c] = S_ctr

\* C15: two accepted uploads (each has a ctr column) that differ only in the
\* values of the ctr column give the same outcome of query_analysis,
\* url_analysis, url_performance_analysis and generate_insights, and raise the
\* same exception, if any: the per-row ctr reaches no result
C15_RowCtrReachesNoResult ==
    (Ready /\ twin # <<>> /\ DifferInCtrOnly) =>
        /\ twin[1].raised = raised
        /\ twin[1].query_results = query_results
        /\ twin[1].url_results = url_results
        /\ twin[1].performance_results = performance_results
        /\ twin[1].insights = insights

\* the two uploads were accepted, their normalized tables differ (in ctr), and
\* the four results exist for a table of several records
C15_Witness ==
    /\ twin # <<>>
    /\ Ready
    /\ DifferInCtrOnly
    /\ twin[1].df # df
    /\ Len(df) > 1
    /\ query_results # <<>>
    /\ url_results # <<>>
    /\ performance_results # <<>>
    /\ insights # <<>>

====
